---- MODULE Spec2Model ----
(***************************************************************************)
(* Model of audiopus' error module (src/error.rs): the ErrorCode and Error *)
(* enumerations, their Display renderings, Error::source, the conversions  *)
(* i32 -> ErrorCode -> Error, and try_map_opus_error.                      *)
(*                                                                         *)
(* All operations are pure.  The state records the last operation applied, *)
(* its argument, its result, and the integers that were handed to          *)
(* ErrorCode::from while it ran.  Text is a sequence of one-character      *)
(* strings.                                                                *)
(***************************************************************************)
EXTENDS Integers, Sequences, FiniteSets

VARIABLES op, arg, ret, conv

vars == <<op, arg, ret, conv>>

----------------------------------------------------------------------------
(* Bounds and input sets *)

\* Every integer of -MaxSmall..MaxSmall is tried as an input.
MaxSmall == 12

\* Lengths 0..MaxLen are tried as MappingExpectedLen payloads.
MaxLen == 11

I32Max == 2147483647

I32Min == -I32Max - 1

\* i32 inputs: a dense window around zero and the documented codes, the
\* values the documentation mentions, and both ends of the type.
I32Inputs ==
  (-MaxSmall .. MaxSmall)
    \cup {I32Min, I32Min + 1, -9999, -100, 960, 48000, I32Max - 1, I32Max}

\* usize inputs (the model's integers stop at 2^31 - 1).
UsizeInputs == (0 .. MaxLen) \cup {255, 256, I32Max}

----------------------------------------------------------------------------
(* Native status codes referenced through `ffi` (libopus, opus_defines.h) *)

OPUS_BAD_ARG == -1

OPUS_BUFFER_TOO_SMALL == -2

OPUS_INTERNAL_ERROR == -3

OPUS_INVALID_PACKET == -4

OPUS_UNIMPLEMENTED == -5

OPUS_INVALID_STATE == -6

OPUS_ALLOC_FAIL == -7

----------------------------------------------------------------------------
(* enum ErrorCode *)

DocumentedCodes ==
  {"BadArgument", "BufferTooSmall", "InternalError", "InvalidPacket",
   "Unimplemented", "InvalidState", "AllocFail"}

ErrorCode == DocumentedCodes \cup {"Unknown"}

\* `c as i32` for the #[repr(i32)] enumeration.
Discriminant(c) ==
  CASE c = "BadArgument" -> OPUS_BAD_ARG
    [] c = "BufferTooSmall" -> OPUS_BUFFER_TOO_SMALL
    [] c = "InternalError" -> OPUS_INTERNAL_ERROR
    [] c = "InvalidPacket" -> OPUS_INVALID_PACKET
    [] c = "Unimplemented" -> OPUS_UNIMPLEMENTED
    [] c = "InvalidState" -> OPUS_INVALID_STATE
    [] c = "AllocFail" -> OPUS_ALLOC_FAIL
    [] c = "Unknown" -> 0

----------------------------------------------------------------------------
(* enum Error *)

UnitVariants ==
  {"InvalidApplication", "EmptyPacket", "SignalsTooLarge", "PacketTooLarge"}

I32Variants ==
  {"InvalidBandwidth", "InvalidBitrate", "InvalidSignal", "InvalidComplexity",
   "InvalidSampleRate", "InvalidChannels"}

UsizeVariants == {"MappingExpectedLen"}

Unit(t) == [tag |-> t]

Param(t, x) == [tag |-> t, val |-> x]

Opus(c) == [tag |-> "Opus", code |-> c]

Error ==
  {Unit(t) : t \in UnitVariants}
    \cup {Param(t, x) : t \in I32Variants, x \in I32Inputs}
    \cup {Param(t, x) : t \in UsizeVariants, x \in UsizeInputs}
    \cup {Opus(c) : c \in ErrorCode}

\* Result<i32, Error>
Ok(v) == [ok |-> TRUE, val |-> v]

Err(e) == [ok |-> FALSE, err |-> e]

\* Option<&dyn StdError>
None == <<>>

Some(x) == <<x>>

----------------------------------------------------------------------------
(* Message texts *)

\* The grave accent, which a string literal of the model cannot hold.
Backtick == "<grave>"

\* "Invalid Application"
MsgInvalidApplication ==
  <<
    "I", "n", "v", "a", "l", "i", "d", " ", "A", "p", "p", "l", "i", "c",
    "a", "t", "i", "o", "n"
  >>

\* "Invalid Bandwitdh: "
MsgInvalidBandwidth ==
  <<
    "I", "n", "v", "a", "l", "i", "d", " ", "B", "a", "n", "d", "w", "i",
    "t", "d", "h", ":", " "
  >>

\* "Invalid Signal: "
MsgInvalidSignal ==
  <<
    "I", "n", "v", "a", "l", "i", "d", " ", "S", "i", "g", "n", "a", "l",
    ":", " "
  >>

\* "Invalid Complexity: "
MsgInvalidComplexity ==
  <<
    "I", "n", "v", "a", "l", "i", "d", " ", "C", "o", "m", "p", "l", "e",
    "x", "i", "t", "y", ":", " "
  >>

\* "Invalid Sample Rate: "
MsgInvalidSampleRate ==
  <<
    "I", "n", "v", "a", "l", "i", "d", " ", "S", "a", "m", "p", "l", "e",
    " ", "R", "a", "t", "e", ":", " "
  >>

\* "Invalid Channels: "
MsgInvalidChannels ==
  <<
    "I", "n", "v", "a", "l", "i", "d", " ", "C", "h", "a", "n", "n", "e",
    "l", "s", ":", " "
  >>

\* "Passed packet contained no elements"
MsgEmptyPacket ==
  <<
    "P", "a", "s", "s", "e", "d", " ", "p", "a", "c", "k", "e", "t", " ",
    "c", "o", "n", "t", "a", "i", "n", "e", "d", " ", "n", "o", " ", "e",
    "l", "e", "m", "e", "n", "t", "s"
  >>

\* "Signals' length exceeded `i32::MAX`"
MsgSignalsTooLarge ==
  <<
    "S", "i", "g", "n", "a", "l", "s", "'", " ", "l", "e", "n", "g", "t",
    "h", " ", "e", "x", "c", "e", "e", "d", "e", "d", " ", Backtick, "i", "3",
    "2", ":", ":", "M", "A", "X", Backtick
  >>

\* "Packet's length exceeded `i32::MAX`"
MsgPacketTooLarge ==
  <<
    "P", "a", "c", "k", "e", "t", "'", "s", " ", "l", "e", "n", "g", "t",
    "h", " ", "e", "x", "c", "e", "e", "d", "e", "d", " ", Backtick, "i", "3",
    "2", ":", ":", "M", "A", "X", Backtick
  >>

\* "Invalid Bitrate: "
MsgInvalidBitrate ==
  <<
    "I", "n", "v", "a", "l", "i", "d", " ", "B", "i", "t", "r", "a", "t",
    "e", ":", " "
  >>

\* "Wrong channel length, expected: "
MsgMappingExpectedLen ==
  <<
    "W", "r", "o", "n", "g", " ", "c", "h", "a", "n", "n", "e", "l", " ",
    "l", "e", "n", "g", "t", "h", ",", " ", "e", "x", "p", "e", "c", "t",
    "e", "d", ":", " "
  >>

\* "Passed argument violated Opus' specified requirements"
MsgBadArgument ==
  <<
    "P", "a", "s", "s", "e", "d", " ", "a", "r", "g", "u", "m", "e", "n",
    "t", " ", "v", "i", "o", "l", "a", "t", "e", "d", " ", "O", "p", "u",
    "s", "'", " ", "s", "p", "e", "c", "i", "f", "i", "e", "d", " ", "r",
    "e", "q", "u", "i", "r", "e", "m", "e", "n", "t", "s"
  >>

\* "Passed buffer was too small"
MsgBufferTooSmall ==
  <<
    "P", "a", "s", "s", "e", "d", " ", "b", "u", "f", "f", "e", "r", " ",
    "w", "a", "s", " ", "t", "o", "o", " ", "s", "m", "a", "l", "l"
  >>

\* "Internal error inside Opus occured"
MsgInternalError ==
  <<
    "I", "n", "t", "e", "r", "n", "a", "l", " ", "e", "r", "r", "o", "r",
    " ", "i", "n", "s", "i", "d", "e", " ", "O", "p", "u", "s", " ", "o",
    "c", "c", "u", "r", "e", "d"
  >>

\* "Opus received a packet violating requirements"
MsgInvalidPacket ==
  <<
    "O", "p", "u", "s", " ", "r", "e", "c", "e", "i", "v", "e", "d", " ",
    "a", " ", "p", "a", "c", "k", "e", "t", " ", "v", "i", "o", "l", "a",
    "t", "i", "n", "g", " ", "r", "e", "q", "u", "i", "r", "e", "m", "e",
    "n", "t", "s"
  >>

\* "Unimplemented code branch was attempted to be executed"
MsgUnimplemented ==
  <<
    "U", "n", "i", "m", "p", "l", "e", "m", "e", "n", "t", "e", "d", " ",
    "c", "o", "d", "e", " ", "b", "r", "a", "n", "c", "h", " ", "w", "a",
    "s", " ", "a", "t", "t", "e", "m", "p", "t", "e", "d", " ", "t", "o",
    " ", "b", "e", " ", "e", "x", "e", "c", "u", "t", "e", "d"
  >>

\* "Opus-type instance is in an invalid state"
MsgInvalidState ==
  <<
    "O", "p", "u", "s", "-", "t", "y", "p", "e", " ", "i", "n", "s", "t",
    "a", "n", "c", "e", " ", "i", "s", " ", "i", "n", " ", "a", "n", " ",
    "i", "n", "v", "a", "l", "i", "d", " ", "s", "t", "a", "t", "e"
  >>

\* "Opus was unable to allocate memory"
MsgAllocFail ==
  <<
    "O", "p", "u", "s", " ", "w", "a", "s", " ", "u", "n", "a", "b", "l",
    "e", " ", "t", "o", " ", "a", "l", "l", "o", "c", "a", "t", "e", " ",
    "m", "e", "m", "o", "r", "y"
  >>

\* "Opus returned a non-negative error, this might be a Audiopus or Opus bug"
MsgUnknown ==
  <<
    "O", "p", "u", "s", " ", "r", "e", "t", "u", "r", "n", "e", "d", " ",
    "a", " ", "n", "o", "n", "-", "n", "e", "g", "a", "t", "i", "v", "e",
    " ", "e", "r", "r", "o", "r", ",", " ", "t", "h", "i", "s", " ", "m",
    "i", "g", "h", "t", " ", "b", "e", " ", "a", " ", "A", "u", "d", "i",
    "o", "p", "u", "s", " ", "o", "r", " ", "O", "p", "u", "s", " ", "b",
    "u", "g"
  >>
----------------------------------------------------------------------------
(* Decimal rendering of integers: the `{}` placeholder on i32 and usize *)

DigitChar(d) == <<"0", "1", "2", "3", "4", "5", "6", "7", "8", "9">>[d + 1]

RECURSIVE FmtUnsigned(_)
\* The digits of n >= 0, most significant first, no padding.
FmtUnsigned(n) ==
  IF n < 10
    THEN <<DigitChar(n)>>
    ELSE FmtUnsigned(n \div 10) \o <<DigitChar(n % 10)>>

\* The digits of |x| for x < 0, computed without leaving the i32 range
\* (|i32::MIN| is not an i32; the library formats it as a u32).
FmtMagnitude(x) ==
  LET last == (10 - (x % 10)) % 10
      rest == -((x + last) \div 10)
  IN  IF rest = 0
        THEN <<DigitChar(last)>>
        ELSE FmtUnsigned(rest) \o <<DigitChar(last)>>

FmtI32(x) == IF x >= 0 THEN FmtUnsigned(x) ELSE <<"-">> \o FmtMagnitude(x)

FmtUsize(n) == FmtUnsigned(n)

----------------------------------------------------------------------------
(* impl Display for ErrorCode *)

\* Seeded fault: Unknown shares InternalError's message.
ErrorCodeFmt_SharedMessage(c) ==
  CASE c = "BadArgument" -> MsgBadArgument
    [] c = "BufferTooSmall" -> MsgBufferTooSmall
    [] c = "InternalError" -> MsgInternalError
    [] c = "InvalidPacket" -> MsgInvalidPacket
    [] c = "Unimplemented" -> MsgUnimplemented
    [] c = "InvalidState" -> MsgInvalidState
    [] c = "AllocFail" -> MsgAllocFail
    [] c = "Unknown" -> MsgInternalError

ErrorCodeFmt(c) ==
  CASE c = "BadArgument" -> MsgBadArgument
    [] c = "BufferTooSmall" -> MsgBufferTooSmall
    [] c = "InternalError" -> MsgInternalError
    [] c = "InvalidPacket" -> MsgInvalidPacket
    [] c = "Unimplemented" -> MsgUnimplemented
    [] c = "InvalidState" -> MsgInvalidState
    [] c = "AllocFail" -> MsgAllocFail
    [] c = "Unknown" -> MsgUnknown

----------------------------------------------------------------------------
(* impl Display for Error *)

\* "Opus error: "
MutantOpusPrefix ==
  <<"O", "p", "u", "s", " ", "e", "r", "r", "o", "r", ":", " ">>

\* Seeded fault: the Opus arm decorates the code's message with a prefix.
ErrorFmt_OpusPrefixed(e) ==
  CASE e.tag = "InvalidApplication" -> MsgInvalidApplication
    [] e.tag = "InvalidBandwidth" -> MsgInvalidBandwidth \o FmtI32(e.val)
    [] e.tag = "InvalidSignal" -> MsgInvalidSignal \o FmtI32(e.val)
    [] e.tag = "InvalidComplexity" -> MsgInvalidComplexity \o FmtI32(e.val)
    [] e.tag = "InvalidSampleRate" -> MsgInvalidSampleRate \o FmtI32(e.val)
    [] e.tag = "InvalidChannels" -> MsgInvalidChannels \o FmtI32(e.val)
    [] e.tag = "Opus" -> MutantOpusPrefix \o ErrorCodeFmt(e.code)
    [] e.tag = "EmptyPacket" -> MsgEmptyPacket
    [] e.tag = "SignalsTooLarge" -> MsgSignalsTooLarge
    [] e.tag = "PacketTooLarge" -> MsgPacketTooLarge
    [] e.tag = "InvalidBitrate" -> MsgInvalidBitrate \o FmtI32(e.val)
    [] e.tag = "MappingExpectedLen" ->
         MsgMappingExpectedLen \o FmtUsize(e.val)

\* Seeded fault: the InvalidBitrate arm prints the sign-stripped rate.
ErrorFmt_BitrateUnsigned(e) ==
  CASE e.tag = "InvalidApplication" -> MsgInvalidApplication
    [] e.tag = "InvalidBandwidth" -> MsgInvalidBandwidth \o FmtI32(e.val)
    [] e.tag = "InvalidSignal" -> MsgInvalidSignal \o FmtI32(e.val)
    [] e.tag = "InvalidComplexity" -> MsgInvalidComplexity \o FmtI32(e.val)
    [] e.tag = "InvalidSampleRate" -> MsgInvalidSampleRate \o FmtI32(e.val)
    [] e.tag = "InvalidChannels" -> MsgInvalidChannels \o FmtI32(e.val)
    [] e.tag = "Opus" -> ErrorCodeFmt(e.code)
    [] e.tag = "EmptyPacket" -> MsgEmptyPacket
    [] e.tag = "SignalsTooLarge" -> MsgSignalsTooLarge
    [] e.tag = "PacketTooLarge" -> MsgPacketTooLarge
    [] e.tag = "InvalidBitrate" ->
         MsgInvalidBitrate
           \o (IF e.val >= 0 THEN FmtUnsigned(e.val) ELSE FmtMagnitude(e.val))
    [] e.tag = "MappingExpectedLen" ->
         MsgMappingExpectedLen \o FmtUsize(e.val)

ErrorFmt(e) ==
  CASE e.tag = "InvalidApplication" -> MsgInvalidApplication
    [] e.tag = "InvalidBandwidth" -> MsgInvalidBandwidth \o FmtI32(e.val)
    [] e.tag = "InvalidSignal" -> MsgInvalidSignal \o FmtI32(e.val)
    [] e.tag = "InvalidComplexity" -> MsgInvalidComplexity \o FmtI32(e.val)
    [] e.tag = "InvalidSampleRate" -> MsgInvalidSampleRate \o FmtI32(e.val)
    [] e.tag = "InvalidChannels" -> MsgInvalidChannels \o FmtI32(e.val)
    [] e.tag = "Opus" -> ErrorCodeFmt(e.code)
    [] e.tag = "EmptyPacket" -> MsgEmptyPacket
    [] e.tag = "SignalsTooLarge" -> MsgSignalsTooLarge
    [] e.tag = "PacketTooLarge" -> MsgPacketTooLarge
    [] e.tag = "InvalidBitrate" -> MsgInvalidBitrate \o FmtI32(e.val)
    [] e.tag = "MappingExpectedLen" ->
         MsgMappingExpectedLen \o FmtUsize(e.val)

----------------------------------------------------------------------------
(* impl StdError for Error *)

\* Seeded fault: every variant reports no cause.
ErrorSource_AlwaysNone(e) == None

ErrorSource(e) == IF e.tag = "Opus" THEN Some(e.code) ELSE None

----------------------------------------------------------------------------
(* impl From<ErrorCode> for Error *)

ErrorFromErrorCode(error_code) == Opus(error_code)

----------------------------------------------------------------------------
(* impl From<i32> for ErrorCode *)

\* Seeded fault: two arms of the match are swapped.
ErrorCodeFromI32_SwappedArms(number) ==
  CASE number = OPUS_BAD_ARG -> "BadArgument"
    [] number = OPUS_BUFFER_TOO_SMALL -> "BufferTooSmall"
    [] number = OPUS_INTERNAL_ERROR -> "InvalidPacket"
    [] number = OPUS_INVALID_PACKET -> "InternalError"
    [] number = OPUS_UNIMPLEMENTED -> "Unimplemented"
    [] number = OPUS_INVALID_STATE -> "InvalidState"
    [] number = OPUS_ALLOC_FAIL -> "AllocFail"
    [] OTHER -> "Unknown"

\* Seeded fault: every value below the documented range is taken for
\* AllocFail.
ErrorCodeFromI32_RangeArm(number) ==
  CASE number = OPUS_BAD_ARG -> "BadArgument"
    [] number = OPUS_BUFFER_TOO_SMALL -> "BufferTooSmall"
    [] number = OPUS_INTERNAL_ERROR -> "InternalError"
    [] number = OPUS_INVALID_PACKET -> "InvalidPacket"
    [] number = OPUS_UNIMPLEMENTED -> "Unimplemented"
    [] number = OPUS_INVALID_STATE -> "InvalidState"
    [] number <= OPUS_ALLOC_FAIL -> "AllocFail"
    [] OTHER -> "Unknown"

\* Seeded fault: zero is taken for the first documented code.
ErrorCodeFromI32_ZeroArm(number) ==
  CASE number = OPUS_BAD_ARG \/ number = 0 -> "BadArgument"
    [] number = OPUS_BUFFER_TOO_SMALL -> "BufferTooSmall"
    [] number = OPUS_INTERNAL_ERROR -> "InternalError"
    [] number = OPUS_INVALID_PACKET -> "InvalidPacket"
    [] number = OPUS_UNIMPLEMENTED -> "Unimplemented"
    [] number = OPUS_INVALID_STATE -> "InvalidState"
    [] number = OPUS_ALLOC_FAIL -> "AllocFail"
    [] OTHER -> "Unknown"

ErrorCodeFromI32(number) ==
  CASE number = OPUS_BAD_ARG -> "BadArgument"
    [] number = OPUS_BUFFER_TOO_SMALL -> "BufferTooSmall"
    [] number = OPUS_INTERNAL_ERROR -> "InternalError"
    [] number = OPUS_INVALID_PACKET -> "InvalidPacket"
    [] number = OPUS_UNIMPLEMENTED -> "Unimplemented"
    [] number = OPUS_INVALID_STATE -> "InvalidState"
    [] number = OPUS_ALLOC_FAIL -> "AllocFail"
    [] OTHER -> "Unknown"

----------------------------------------------------------------------------
(* fn try_map_opus_error *)

\* The result of the call together with the integers it handed to
\* ErrorCode::from, in call order.

\* Seeded fault: the guard reads v <= 0.
try_map_opus_error_ZeroIsError(ffi_return_value) ==
  IF ffi_return_value <= 0
    THEN [result |->
            Err(ErrorFromErrorCode(ErrorCodeFromI32(ffi_return_value))),
          converted |-> <<ffi_return_value>>]
    ELSE [result |-> Ok(ffi_return_value), converted |-> <<>>]

\* Seeded fault: the guard reads v < -1.
try_map_opus_error_OffByOne(ffi_return_value) ==
  IF ffi_return_value < -1
    THEN [result |->
            Err(ErrorFromErrorCode(ErrorCodeFromI32(ffi_return_value))),
          converted |-> <<ffi_return_value>>]
    ELSE [result |-> Ok(ffi_return_value), converted |-> <<>>]

\* Seeded fault: only OPUS_OK (zero) is taken for success.
try_map_opus_error_OnlyZeroIsOk(ffi_return_value) ==
  IF ffi_return_value # 0
    THEN [result |->
            Err(ErrorFromErrorCode(ErrorCodeFromI32(ffi_return_value))),
          converted |-> <<ffi_return_value>>]
    ELSE [result |-> Ok(ffi_return_value), converted |-> <<>>]

try_map_opus_error(ffi_return_value) ==
  IF ffi_return_value < 0
    THEN [result |->
            Err(ErrorFromErrorCode(ErrorCodeFromI32(ffi_return_value))),
          converted |-> <<ffi_return_value>>]
    ELSE [result |-> Ok(ffi_return_value), converted |-> <<>>]

----------------------------------------------------------------------------
(* The state machine: one action per operation of the module *)

Init ==
  /\ op = "init"
  /\ arg = <<>>
  /\ ret = <<>>
  /\ conv = <<>>

CallTryMapOpusError ==
  \E v \in I32Inputs :
    /\ op' = "try_map_opus_error"
    /\ arg' = v
    /\ ret' = try_map_opus_error(v).result
    /\ conv' = try_map_opus_error(v).converted

CallErrorCodeFrom ==
  \E v \in I32Inputs :
    /\ op' = "ErrorCode::from"
    /\ arg' = v
    /\ ret' = ErrorCodeFromI32(v)
    /\ conv' = <<v>>

\* ErrorCode::from(c as i32)
CallCastThenFrom ==
  \E c \in ErrorCode :
    /\ op' = "ErrorCode::from(as i32)"
    /\ arg' = c
    /\ ret' = ErrorCodeFromI32(Discriminant(c))
    /\ conv' = <<Discriminant(c)>>

CallErrorFrom ==
  \E c \in ErrorCode :
    /\ op' = "Error::from"
    /\ arg' = c
    /\ ret' = ErrorFromErrorCode(c)
    /\ conv' = <<>>

CallErrorSource ==
  \E e \in Error :
    /\ op' = "Error::source"
    /\ arg' = e
    /\ ret' = ErrorSource(e)
    /\ conv' = <<>>

CallErrorFmt ==
  \E e \in Error :
    /\ op' = "Error::fmt"
    /\ arg' = e
    /\ ret' = ErrorFmt(e)
    /\ conv' = <<>>

CallErrorCodeFmt ==
  \E c \in ErrorCode :
    /\ op' = "ErrorCode::fmt"
    /\ arg' = c
    /\ ret' = ErrorCodeFmt(c)
    /\ conv' = <<>>

Next ==
  \/ CallTryMapOpusError
  \/ CallErrorCodeFrom
  \/ CallCastThenFrom
  \/ CallErrorFrom
  \/ CallErrorSource
  \/ CallErrorFmt
  \/ CallErrorCodeFmt

Spec == Init /\ [][Next]_vars

----------------------------------------------------------------------------
(* Reading a decimal numeral back, independently of the rendering above *)

Digits == {"0", "1", "2", "3", "4", "5", "6", "7", "8", "9"}

DigitValue(ch) ==
  CASE ch = "0" -> 0 [] ch = "1" -> 1 [] ch = "2" -> 2 [] ch = "3" -> 3
    [] ch = "4" -> 4 [] ch = "5" -> 5 [] ch = "6" -> 6 [] ch = "7" -> 7
    [] ch = "8" -> 8 [] ch = "9" -> 9

\* s is a non-empty digit string without a superfluous leading zero.
IsNumeral(s) ==
  /\ Len(s) >= 1
  /\ \A i \in 1 .. Len(s) : s[i] \in Digits
  /\ (Len(s) > 1 => s[1] # "0")

RECURSIVE NumeralValue(_, _, _)
\* sign * (the number the first n digits of s denote); with sign = -1 the
\* accumulation stays inside the i32 range down to i32::MIN.
NumeralValue(s, n, sign) ==
  IF n = 0
    THEN 0
    ELSE NumeralValue(s, n - 1, sign) * 10 + sign * DigitValue(s[n])

\* s is the decimal representation of x.
IsDecimalOf(s, x) ==
  IF x >= 0
    THEN IsNumeral(s) /\ NumeralValue(s, Len(s), 1) = x
    ELSE /\ Len(s) >= 2
         /\ s[1] = "-"
         /\ IsNumeral(Tail(s))
         /\ NumeralValue(Tail(s), Len(s) - 1, -1) = x

\* Some contiguous piece of text is the decimal representation of x (an i32
\* has at most ten digits and a sign).
ContainsDecimalOf(text, x) ==
  \E i \in 1 .. Len(text) :
    \E j \in i .. Len(text) :
      /\ j - i + 1 <= 11
      /\ IsDecimalOf(SubSeq(text, i, j), x)

NativeCodes ==
  {OPUS_BAD_ARG, OPUS_BUFFER_TOO_SMALL, OPUS_INTERNAL_ERROR,
   OPUS_INVALID_PACKET, OPUS_UNIMPLEMENTED, OPUS_INVALID_STATE,
   OPUS_ALLOC_FAIL}

----------------------------------------------------------------------------
(* Properties *)

\* C1: for every v >= 0 (0, 960 and i32::MAX included),
\* try_map_opus_error(v) returns Ok(v), carrying the input unchanged.
C1_NonNegativeIsOk ==
  (op = "try_map_opus_error" /\ arg >= 0) =>
    /\ ret.ok
    /\ ret.val = arg
    /\ ret = Ok(arg)

C1_Witness ==
  /\ op = "try_map_opus_error"
  /\ arg = I32Max
  /\ ret = Ok(I32Max)

\* C2: for every v < 0 (documented or not, i32::MIN included),
\* try_map_opus_error(v) returns Err(Error::Opus(ErrorCode::from(v))): it is
\* never Ok, the error is the Opus variant, and the wrapped code is the one
\* the conversion gives for v; -1 yields Error::Opus(BadArgument).
C2_NegativeIsOpusError ==
  (op = "try_map_opus_error" /\ arg < 0) =>
    /\ ~ret.ok
    /\ ret.err.tag = "Opus"
    /\ ret.err.code = ErrorCodeFromI32(arg)
    /\ ret = Err(Opus(ErrorCodeFromI32(arg)))
    /\ (arg = -1 => ret = Err(Opus("BadArgument")))

C2_Witness ==
  /\ op = "try_map_opus_error"
  /\ arg = -1
  /\ ret = Err(Opus("BadArgument"))

\* C3: for each of the seven documented native codes, ErrorCode::from
\* returns the variant declared with that constant as its discriminant, and
\* never Unknown.
C3_DocumentedCodeMapsToItsVariant ==
  op = "ErrorCode::from" =>
    \A c \in DocumentedCodes :
      arg = Discriminant(c) => (ret = c /\ ret # "Unknown")

C3_Witness ==
  /\ op = "ErrorCode::from"
  /\ arg = OPUS_INVALID_PACKET
  /\ ret = "InvalidPacket"

\* C4: ErrorCode::from is total, and every value that is not one of the
\* seven documented codes (undocumented negatives such as -9999 and
\* i32::MIN, zero, every positive value) maps to Unknown.
C4_UndocumentedMapsToUnknown ==
  op = "ErrorCode::from" =>
    /\ ret \in ErrorCode
    /\ (arg \notin NativeCodes => ret = "Unknown")

C4_Witness ==
  /\ op = "ErrorCode::from"
  /\ arg = -9999
  /\ ret = "Unknown"

\* C5: Error::source() is Some(code) for Error::Opus(code), for every
\* code, and None for every other variant whatever its payload.
C5_OnlyOpusHasSource ==
  op = "Error::source" =>
    IF arg.tag = "Opus" THEN ret = Some(arg.code) ELSE ret = None

C5_Witness ==
  /\ op = "Error::source"
  /\ arg = Opus("InvalidState")
  /\ ret = Some("InvalidState")

\* C6: for every code, Unknown included, the text Display renders for
\* Error::Opus(code) is exactly the text Display renders for code: nothing
\* is added before or after it.
C6_OpusRendersAsItsCode ==
  (op = "Error::fmt" /\ arg.tag = "Opus") => ret = ErrorCodeFmt(arg.code)

C6_Witness ==
  /\ op = "Error::fmt"
  /\ arg = Opus("Unknown")
  /\ ret = MsgUnknown

\* C7: for every parameterized variant and every payload x, boundary and
\* negative values included, rendering yields a text that contains the
\* decimal representation of x.
C7_RenderingContainsPayload ==
  (op = "Error::fmt" /\ arg.tag \in I32Variants \cup UsizeVariants) =>
    ContainsDecimalOf(ret, arg.val)

C7_Witness ==
  /\ op = "Error::fmt"
  /\ arg = Param("InvalidBitrate", -100)
  /\ ret = MsgInvalidBitrate \o <<"-", "1", "0", "0">>

\* C8: ErrorCode's rendering is one fixed message per variant and distinct
\* variants render to distinct messages, so the message determines the
\* variant.
C8_MessagesAreOneToOne ==
  op = "ErrorCode::fmt" =>
    /\ \A c \in ErrorCode : ErrorCodeFmt(c) = ret => c = arg
    /\ Cardinality({ErrorCodeFmt(c) : c \in ErrorCode})
         = Cardinality(ErrorCode)

C8_Witness ==
  /\ op = "ErrorCode::fmt"
  /\ arg = "Unknown"
  /\ ret = MsgUnknown

\* C9: try_map_opus_error hands only negative values to ErrorCode::from;
\* input 0 yields Ok(0), and a result Err(Error::Opus(Unknown)) means the
\* input was negative and not a documented native code.
C9_ConversionOnlyOnNegatives ==
  op = "try_map_opus_error" =>
    /\ \A i \in 1 .. Len(conv) : conv[i] < 0
    /\ (arg >= 0 => conv = <<>>)
    /\ (arg = 0 => ret = Ok(0))
    /\ (ret = Err(Opus("Unknown")) => (arg < 0 /\ arg \notin NativeCodes))

C9_Witness ==
  /\ op = "try_map_opus_error"
  /\ arg = 0
  /\ ret = Ok(0)
  /\ conv = <<>>

\* C10: for every ErrorCode c, Unknown included, ErrorCode::from(c as i32)
\* is c; the eight discriminants are pairwise distinct, the seven
\* documented ones are negative and Unknown's is 0.
C10_DiscriminantRoundTrip ==
  op = "ErrorCode::from(as i32)" =>
    /\ ret = arg
    /\ conv = <<Discriminant(arg)>>
    /\ \A d \in ErrorCode \ {arg} : Discriminant(d) # Discriminant(arg)
    /\ (arg \in DocumentedCodes => Discriminant(arg) < 0)
    /\ (arg = "Unknown" => Discriminant(arg) = 0)

C10_Witness ==
  /\ op = "ErrorCode::from(as i32)"
  /\ arg = "Unknown"
  /\ conv = <<0>>
  /\ ret = "Unknown"

====
